---- MODULE Spec2Model ----
(***************************************************************************)
(* A model of cozmo_fsm/worldmap.py: the WorldMap tracking map, its update *)
(* handlers, wall inference from markers and the WallSpec registry.        *)
(*                                                                         *)
(* Conventions.                                                            *)
(*  - Angles are counted in quarter turns (1 = pi/2), so that cos and sin  *)
(*    are exact on the integer lattice; positions are integers (mm).       *)
(*  - A Python dict is a sequence of [key, obj] entries in insertion       *)
(*    order.  Keys are <<kind, n>>: an SDK LightCube, CustomObject or Face *)
(*    handle, or an int (a wall id).                                       *)
(*  - World objects live in a heap, oid -> record; the map binds keys to   *)
(*    oids, so that object identity ("is") and aliasing are explicit.      *)
(***************************************************************************)
EXTENDS Integers, Sequences, FiniteSets, TLC

VARIABLES
  objects,          \* WorldMap.objects: sequence of [key, obj] (obj is an oid)
  heap,             \* the world objects the map (or robot.carrying) refers to
  wall_marker_dict, \* the module-level registry: sequence of [key, spec]
  wall_specs,       \* every WallSpec constructed so far, in order
  light_cubes,      \* robot.world.light_cubes: cube id -> LightCube sensor state
  custom_objects,   \* the SDK's CustomObject instances: n -> sensor state
  faces,            \* robot.world._faces: face id -> Face sensor state
  robot,            \* robot.pose, particle_filter.pose, kine transform, carrying
  landmarks,        \* particle_filter.sensor_model.landmarks: sequence of entries
  last              \* the last operation that ran: [op, arg]

vars == <<objects, heap, wall_marker_dict, wall_specs, light_cubes,
          custom_objects, faces, robot, landmarks, last>>

-----------------------------------------------------------------------------
(* Bounds of the model *)

NumCubes == 1
NumCustom == 1
NumFaces == 2

CubeIds == 1..NumCubes
CustomIds == 1..NumCustom
FaceIds == 1..NumFaces

-----------------------------------------------------------------------------
(* Python dict, as an insertion-ordered sequence of [key, obj] entries *)

Keys(d) == {d[i].key : i \in DOMAIN d}

Has(d, k) == k \in Keys(d)

IndexOf(d, k) == CHOOSE i \in DOMAIN d : d[i].key = k

Get(d, k) == d[IndexOf(d, k)].obj

\* d[k] = v: an existing key keeps its place, a new key goes last
Put(d, k, v) ==
  IF Has(d, k)
  THEN [i \in DOMAIN d |-> IF d[i].key = k THEN [key |-> k, obj |-> v] ELSE d[i]]
  ELSE Append(d, [key |-> k, obj |-> v])

\* d.pop(k)
Pop(d, k) ==
  LET i == IndexOf(d, k)
  IN  SubSeq(d, 1, i - 1) \o SubSeq(d, i + 1, Len(d))

Min(S) == CHOOSE m \in S : \A n \in S : m <= n

-----------------------------------------------------------------------------
(* Object identity *)

PoolSize == 2 * (NumCubes + NumCustom + NumFaces) + 4

\* A map state threaded through a handler: the dict and the heap.  An object
\* dropped from the dict stays in the heap until the handler returns.
MapState(o, h) == [objects |-> o, heap |-> h]

\* The identity of a newly constructed object: one that no object of the
\* heap has.
NewOid(M, cls) ==
  <<cls, Min({n \in 1..PoolSize : <<cls, n>> \notin DOMAIN M.heap})>>

Alloc(M, oid, rec) ==
  [M EXCEPT !.heap = [o \in (DOMAIN M.heap) \cup {oid} |->
                        IF o = oid THEN rec ELSE M.heap[o]]]

\* Objects no longer referenced by the map nor by robot.carrying are dropped.
Live(M, carrying) ==
  {M.objects[i].obj : i \in DOMAIN M.objects} \cup {carrying[i] : i \in DOMAIN carrying}

Collect(M, carrying) ==
  [o \in (DOMAIN M.heap) \cap Live(M, carrying) |-> M.heap[o]]

-----------------------------------------------------------------------------
(* Angles in quarter turns *)

CosQ(q) == CASE q % 4 = 0 -> 1 [] q % 4 = 2 -> -1 [] OTHER -> 0

SinQ(q) == CASE q % 4 = 1 -> 1 [] q % 4 = 3 -> -1 [] OTHER -> 0

\* transform.wrap_angle: the angle brought into (-pi, pi], here (-2, 2]
wrap_angle(a) == ((a + 1) % 4) - 1

-----------------------------------------------------------------------------
(* Sensor (SDK) objects *)

CubeKey(c) == <<"LightCube", c>>
CustomKey(k) == <<"CustomObject", k>>
FaceKey(f) == <<"Face", f>>
IntKey(n) == <<"int", n>>

\* sdk_obj.pose is None
NullPose == [null |-> TRUE, x |-> 0, y |-> 0, z |-> 0, yaw |-> 0, comparable |-> FALSE]

\* A pose; comparable is the answer of pose.is_comparable(robot.pose)
Pose(x, y, z, yaw, cmp) ==
  [null |-> FALSE, x |-> x, y |-> y, z |-> z, yaw |-> yaw, comparable |-> cmp]

\* The sensor object behind a key
Sdk(key) ==
  CASE key[1] = "LightCube" -> light_cubes[key[2]]
    [] key[1] = "CustomObject" -> custom_objects[key[2]]
    [] key[1] = "Face" -> faces[key[2]]

-----------------------------------------------------------------------------
(* World objects *)

LightCubeObj(sdk_key, id) ==
  [cls |-> "LightCubeObj", id |-> id, x |-> 0, y |-> 0, z |-> 0,
   obstacle |-> TRUE, is_visible |-> Sdk(sdk_key).is_visible,
   update_from_sdk |-> TRUE, theta |-> 0, sdk_obj |-> sdk_key,
   size |-> <<44, 44, 44>>]

CustomCubeObj(sdk_key, id) ==
  [cls |-> "CustomCubeObj", id |-> id, x |-> 0, y |-> 0, z |-> 0,
   obstacle |-> TRUE, is_visible |-> Sdk(sdk_key).is_visible,
   update_from_sdk |-> TRUE, theta |-> 0, sdk_obj |-> sdk_key,
   size |-> <<50, 50, 50>>]

\* A FaceObj has no theta and no expression attribute until they are first
\* assigned: <<>> is the missing attribute, <<v>> the attribute with value v.
FaceObj(sdk_key, id, x, y, z, name) ==
  [cls |-> "FaceObj", id |-> id, x |-> x, y |-> y, z |-> z,
   obstacle |-> FALSE, is_visible |-> Sdk(sdk_key).is_visible,
   update_from_sdk |-> FALSE, theta |-> <<>>, sdk_obj |-> sdk_key,
   name |-> name, expression |-> <<>>]

WallObj(id, x, y, theta, length, height, door_height) ==
  [cls |-> "WallObj", id |-> id, x |-> x, y |-> y, z |-> height \div 2,
   obstacle |-> TRUE, is_visible |-> FALSE, update_from_sdk |-> FALSE,
   theta |-> theta, length |-> length, height |-> height,
   door_width |-> 75, door_height |-> door_height]

\* world_obj.theta = v
SetTheta(e, v) ==
  IF e.cls = "FaceObj" THEN [e EXCEPT !.theta = <<v>>] ELSE [e EXCEPT !.theta = v]

-----------------------------------------------------------------------------
(* Coordinate fusion *)

\* r*cos(alpha + rob_theta) with alpha = atan2(dy,dx) - angle_z and
\* r = sqrt(dx^2 + dy^2) is dx*cos(d) - dy*sin(d) for d = rob_theta - angle_z,
\* and likewise for sin: the rotation of (dx, dy) by d.
\* update_coords that adds the reprojected offset to the entity's coordinates
update_coords_accumulating(M, o, sdk) ==
  LET dx == sdk.pose.x - robot.pose.x
      dy == sdk.pose.y - robot.pose.y
      d == robot.pf.theta - robot.pose.theta
      orient_diff == wrap_angle(robot.pf.theta - robot.pose.theta)
      e1 == [M.heap[o] EXCEPT
               !.x = @ + dx * CosQ(d) - dy * SinQ(d),
               !.y = @ + dx * SinQ(d) + dy * CosQ(d),
               !.z = sdk.pose.z,
               !.is_visible = sdk.is_visible]
      e2 == SetTheta(e1, wrap_angle(sdk.pose.yaw + orient_diff))
  IN  [M EXCEPT !.heap[o] = e2]

\* update_coords that reprojects about the world origin, not the filtered
\* position
update_coords_about_origin(M, o, sdk) ==
  LET dx == sdk.pose.x - robot.pose.x
      dy == sdk.pose.y - robot.pose.y
      d == robot.pf.theta - robot.pose.theta
      orient_diff == wrap_angle(robot.pf.theta - robot.pose.theta)
      e1 == [M.heap[o] EXCEPT
               !.x = dx * CosQ(d) - dy * SinQ(d),
               !.y = dx * SinQ(d) + dy * CosQ(d),
               !.z = sdk.pose.z,
               !.is_visible = sdk.is_visible]
      e2 == SetTheta(e1, wrap_angle(sdk.pose.yaw + orient_diff))
  IN  [M EXCEPT !.heap[o] = e2]

\* update_coords that leaves the sum of yaw and heading correction unwrapped
update_coords_unwrapped(M, o, sdk) ==
  LET dx == sdk.pose.x - robot.pose.x
      dy == sdk.pose.y - robot.pose.y
      d == robot.pf.theta - robot.pose.theta
      orient_diff == wrap_angle(robot.pf.theta - robot.pose.theta)
      e1 == [M.heap[o] EXCEPT
               !.x = robot.pf.x + dx * CosQ(d) - dy * SinQ(d),
               !.y = robot.pf.y + dx * SinQ(d) + dy * CosQ(d),
               !.z = sdk.pose.z,
               !.is_visible = sdk.is_visible]
      e2 == SetTheta(e1, sdk.pose.yaw + orient_diff)
  IN  [M EXCEPT !.heap[o] = e2]

update_coords(M, o, sdk) ==
  LET dx == sdk.pose.x - robot.pose.x
      dy == sdk.pose.y - robot.pose.y
      d == robot.pf.theta - robot.pose.theta
      orient_diff == wrap_angle(robot.pf.theta - robot.pose.theta)
      e1 == [M.heap[o] EXCEPT
               !.x = robot.pf.x + dx * CosQ(d) - dy * SinQ(d),
               !.y = robot.pf.y + dx * SinQ(d) + dy * CosQ(d),
               !.z = sdk.pose.z,
               !.is_visible = sdk.is_visible]
      e2 == SetTheta(e1, wrap_angle(sdk.pose.yaw + orient_diff))
  IN  [M EXCEPT !.heap[o] = e2]

half_width == 22

\* tmat.dot(transform.point(half_width, 0)): tmat is the kinematic chain's
\* transform, a translation (tx, ty) and a rotation by rot quarter turns.
update_carried_object(M, o) ==
  LET tmat == robot.tmat
      new_x == tmat.tx + half_width * CosQ(tmat.rot)
      new_y == tmat.ty + half_width * SinQ(tmat.rot)
      theta == robot.pf.theta
  IN  [M EXCEPT !.heap[o] = [@ EXCEPT !.x = new_x, !.y = new_y, !.theta = theta]]

-----------------------------------------------------------------------------
(* Entity tracking: cubes and custom objects *)

\* The end of update_cube without update_from_sdk set again for a visible cube
update_cube_tail_not_reenabling(M, o, cube) ==
  IF M.heap[o].update_from_sdk THEN update_coords(M, o, cube) ELSE M

\* The end of update_cube with update_from_sdk following the visibility
update_cube_tail_following_visibility(M, o, cube) ==
  LET M1 == [M EXCEPT !.heap[o].update_from_sdk = cube.is_visible]
  IN  IF M1.heap[o].update_from_sdk THEN update_coords(M1, o, cube) ELSE M1

\* Lines 151-154 of update_cube
update_cube_tail(M, o, cube) ==
  LET M1 == IF cube.is_visible
            THEN [M EXCEPT !.heap[o].update_from_sdk = TRUE]
            ELSE M
  IN  IF M1.heap[o].update_from_sdk THEN update_coords(M1, o, cube) ELSE M1

\* update_cube without the test for the carried object
update_cube_ignoring_carry(M, c) ==
  LET cube == light_cubes[c]
      key == CubeKey(c)
  IN  IF Has(M.objects, key)
      THEN update_cube_tail(M, Get(M.objects, key), cube)
      ELSE IF cube.pose.null \/ ~cube.pose.comparable
      THEN M
      ELSE LET world_obj == NewOid(M, "LightCubeObj")
               M1 == Alloc(M, world_obj, LightCubeObj(key, c))
               M2 == [M1 EXCEPT !.objects = Put(M1.objects, key, world_obj)]
           IN  update_cube_tail(M2, world_obj, cube)

update_cube(M, c) ==
  LET cube == light_cubes[c]
      key == CubeKey(c)
  IN  IF Has(M.objects, key)
      THEN LET world_obj == Get(M.objects, key)
           IN  IF robot.carrying = <<world_obj>>
               THEN update_carried_object(M, world_obj)
               ELSE update_cube_tail(M, world_obj, cube)
      ELSE IF cube.pose.null \/ ~cube.pose.comparable
      THEN M
      ELSE LET world_obj == NewOid(M, "LightCubeObj")
               M1 == Alloc(M, world_obj, LightCubeObj(key, c))
               M2 == [M1 EXCEPT !.objects = Put(M1.objects, key, world_obj)]
           IN  update_cube_tail(M2, world_obj, cube)

\* update_custom_object that builds a new CustomCubeObj on every call
update_custom_object_recreating(M, k) ==
  LET sdk_obj == custom_objects[k]
      key == CustomKey(k)
  IN  IF ~sdk_obj.pose.comparable
      THEN M
      ELSE LET world_obj == NewOid(M, "CustomCubeObj")
               M1 == Alloc(M, world_obj, CustomCubeObj(key, sdk_obj.object_type))
               M2 == [M1 EXCEPT !.objects = Put(M1.objects, key, world_obj)]
           IN  update_coords(M2, world_obj, sdk_obj)

update_custom_object(M, k) ==
  LET sdk_obj == custom_objects[k]
      key == CustomKey(k)
  IN  IF ~sdk_obj.pose.comparable
      THEN M
      ELSE IF Has(M.objects, key)
      THEN update_coords(M, Get(M.objects, key), sdk_obj)
      ELSE LET world_obj == NewOid(M, "CustomCubeObj")
               M1 == Alloc(M, world_obj, CustomCubeObj(key, sdk_obj.object_type))
               M2 == [M1 EXCEPT !.objects = Put(M1.objects, key, world_obj)]
           IN  update_coords(M2, world_obj, sdk_obj)

-----------------------------------------------------------------------------
(* Entity tracking: faces *)

\* The for loop of lookup_face_obj from entry i on.  The result is the map
\* state and the value returned: <<>> for None, <<oid>> for a world object.
RECURSIVE lookup_face_scan(_, _, _)
lookup_face_scan(M, f, i) ==
  IF i > Len(M.objects)
  THEN [M |-> M, value |-> <<>>]
  ELSE LET key == M.objects[i].key
           value == M.objects[i].obj
           face == faces[f]
       IN  IF key[1] = "Face" /\ faces[key[2]].name = face.name
           THEN IF key # FaceKey(f) /\ face.is_visible
                THEN [M |-> [M EXCEPT !.objects =
                                Put(Pop(M.objects, key), FaceKey(f), value)],
                      value |-> <<value>>]
                ELSE [M |-> M, value |-> <<value>>]
           ELSE lookup_face_scan(M, f, i + 1)

\* lookup_face_obj that returns the match and leaves the dict as it is
RECURSIVE lookup_face_scan_keeping_key(_, _, _)
lookup_face_scan_keeping_key(M, f, i) ==
  IF i > Len(M.objects)
  THEN [M |-> M, value |-> <<>>]
  ELSE IF M.objects[i].key[1] = "Face"
          /\ faces[M.objects[i].key[2]].name = faces[f].name
       THEN [M |-> M, value |-> <<M.objects[i].obj>>]
       ELSE lookup_face_scan_keeping_key(M, f, i + 1)

lookup_face_obj_keeping_key(M, f) == lookup_face_scan_keeping_key(M, f, 1)

lookup_face_obj(M, f) == lookup_face_scan(M, f, 1)

\* The end of update_face that refreshes position and expression of a face
\* that is not visible too
update_face_found_refreshing(M1, f, value) ==
  LET face == faces[f]
      pos == face.pose
      face_obj == IF value = <<>> THEN NewOid(M1, "FaceObj") ELSE value[1]
      M2 == IF value = <<>>
            THEN [Alloc(M1, face_obj,
                        FaceObj(FaceKey(f), face.face_id,
                                pos.x, pos.y, pos.z, face.name))
                    EXCEPT !.objects = Put(M1.objects, FaceKey(f), face_obj)]
            ELSE M1
  IN  [M2 EXCEPT !.heap[face_obj] =
         [@ EXCEPT !.is_visible = face.is_visible,
                   !.x = pos.x, !.y = pos.y, !.z = pos.z,
                   !.expression = <<face.expression>>]]

\* Lines 172-183 of update_face: found is what lookup_face_obj returned
update_face_found(M1, f, value) ==
  LET face == faces[f]
      pos == face.pose
      face_obj == IF value = <<>> THEN NewOid(M1, "FaceObj") ELSE value[1]
      M2 == IF value = <<>>
            THEN [Alloc(M1, face_obj,
                        FaceObj(FaceKey(f), face.face_id,
                                pos.x, pos.y, pos.z, face.name))
                    EXCEPT !.objects = Put(M1.objects, FaceKey(f), face_obj)]
            ELSE M1
      M3 == [M2 EXCEPT !.heap[face_obj].is_visible = face.is_visible]
  IN  IF face.is_visible
      THEN update_coords(
             [M3 EXCEPT !.heap[face_obj] =
                [@ EXCEPT !.x = pos.x, !.y = pos.y, !.z = pos.z,
                          !.expression = <<face.expression>>]],
             face_obj, face)
      ELSE M3

\* update_face that creates a FaceObj only for a visible face
update_face_creating_if_visible(M, f) ==
  IF faces[f].pose.null
  THEN M
  ELSE LET found == lookup_face_obj(M, f)
       IN  IF found.value = <<>> /\ ~faces[f].is_visible
           THEN found.M
           ELSE update_face_found(found.M, f, found.value)

\* update_face that looks the face up and refreshes is_visible before it
\* tests the pose
update_face_testing_pose_late(M, f) ==
  LET found == lookup_face_obj(M, f)
  IN  IF faces[f].pose.null
      THEN IF found.value = <<>>
           THEN found.M
           ELSE [found.M EXCEPT !.heap[found.value[1]].is_visible = faces[f].is_visible]
      ELSE update_face_found(found.M, f, found.value)

update_face(M, f) ==
  IF faces[f].pose.null
  THEN M
  ELSE LET found == lookup_face_obj(M, f)
       IN  update_face_found(found.M, f, found.value)

-----------------------------------------------------------------------------
(* Wall specifications and wall inference *)

\* WallSpec.__init__ up to the assignment of self.id; markers is a function
\* marker id -> the marker's offset along the wall (markers[id][1][0]).
\* The ids are taken in ascending order.
\* WallSpec that takes the greatest marker id as its id
WallSpecObj_max_id(length, height, door_height, markers) ==
  [id |-> CHOOSE m \in DOMAIN markers : \A n \in DOMAIN markers : n <= m,
   length |-> length, height |-> height,
   door_width |-> 75, door_height |-> door_height, markers |-> markers]

WallSpecObj(length, height, door_height, markers) ==
  [id |-> Min(DOMAIN markers), length |-> length, height |-> height,
   door_width |-> 75, door_height |-> door_height, markers |-> markers]

\* for id in ids: wall_marker_dict[id] = self
RECURSIVE RegisterMarkers(_, _, _)
RegisterMarkers(d, ids, spec) ==
  IF ids = {}
  THEN d
  ELSE RegisterMarkers(Put(d, Min(ids), spec), ids \ {Min(ids)}, spec)

\* wall_marker_dict.get(id, None): <<>> for None
RegistryGet(id) ==
  IF Has(wall_marker_dict, id) THEN <<Get(wall_marker_dict, id)>> ELSE <<>>

\* The first loop of generate_walls_from_markers over the landmarks dict lm,
\* from entry i on: seen is the dict wall id -> list of (id, spec) built so far.
RECURSIVE DistributeMarkers(_, _, _)
DistributeMarkers(lm, seen, i) ==
  IF i > Len(lm)
  THEN seen
  ELSE LET id == lm[i].key
           wall_spec == RegistryGet(id)
       IN  IF wall_spec = <<>>
           THEN DistributeMarkers(lm, seen, i + 1)
           ELSE LET wall_id == wall_spec[1].id
                    markers == IF Has(seen, wall_id) THEN Get(seen, wall_id) ELSE <<>>
                IN  DistributeMarkers(
                      lm, Put(seen, wall_id, Append(markers, lm[i])), i + 1)

\* The for loop of infer_wall: the wall of the first marker of the list that
\* has a registry entry; <<>> (None) when the loop ends without returning.
RECURSIVE infer_wall_loop(_, _)
infer_wall_loop(id, markers) ==
  IF markers = <<>>
  THEN <<>>
  ELSE LET m_id == Head(markers).key
           m_spec == Head(markers).obj
           wall_spec == RegistryGet(m_id)
       IN  IF wall_spec = <<>>
           THEN infer_wall_loop(id, Tail(markers))
           ELSE LET ws == wall_spec[1]
                    dist == (ws.length \div 2) - ws.markers[m_id]
                    wall_orient == m_spec.orient
                    wall_x == m_spec.x + dist * CosQ(wall_orient - 1)
                    wall_y == m_spec.y + dist * SinQ(wall_orient - 1)
                IN  <<WallObj(ws.id, wall_x, wall_y, wall_orient,
                              ws.length, ws.height, ws.door_height)>>

\* infer_wall that takes the markers in reverse
RECURSIVE Reversed(_)
Reversed(q) == IF q = <<>> THEN <<>> ELSE Append(Reversed(Tail(q)), Head(q))

infer_wall_from_last(id, markers) == infer_wall_loop(id, Reversed(markers))

infer_wall(id, markers) == infer_wall_loop(id, markers)

\* The second loop of generate_walls_from_markers from entry i of seen on
RECURSIVE InferWalls(_, _, _)
InferWalls(M, seen, i) ==
  IF i > Len(seen)
  THEN M
  ELSE LET id == seen[i].key
           wall == infer_wall(id, seen[i].obj)
           o == NewOid(M, "WallObj")
           M1 == IF wall = <<>>
                 THEN M
                 ELSE [Alloc(M, o, wall[1]) EXCEPT
                         !.objects = Put(M.objects, IntKey(id), o)]
       IN  InferWalls(M1, seen, i + 1)

\* generate_walls_from_markers with landmarks = lm
GenerateWalls(M, lm) == InferWalls(M, DistributeMarkers(lm, <<>>, 1), 1)

\* generate_walls_from_markers that forgets the walls it does not rebuild
generate_walls_purging(M) ==
  GenerateWalls(
    [M EXCEPT !.objects = SelectSeq(M.objects, LAMBDA en : en.key[1] # "int")],
    landmarks)

generate_walls_from_markers(M) == GenerateWalls(M, landmarks)

-----------------------------------------------------------------------------
(* Update orchestrator *)

RECURSIVE UpdateCubes(_, _)
UpdateCubes(M, c) ==
  IF c > NumCubes THEN M ELSE UpdateCubes(update_cube(M, c), c + 1)

RECURSIVE UpdateFaces(_, _)
UpdateFaces(M, f) ==
  IF f > NumFaces THEN M ELSE UpdateFaces(update_face(M, f), f + 1)

\* update_map that refreshes the custom objects too, as its docstring says
RECURSIVE update_customs_too(_, _)
update_customs_too(M, k) ==
  IF k > NumCustom THEN M ELSE update_customs_too(update_custom_object(M, k), k + 1)

update_map_with_custom_objects(M) ==
  UpdateFaces(update_customs_too(
                UpdateCubes(generate_walls_from_markers(M), 1), 1), 1)

update_map(M) == UpdateFaces(UpdateCubes(generate_walls_from_markers(M), 1), 1)

-----------------------------------------------------------------------------
(* The collaborators' state: what the sensors and the robot may report *)

NumMarkers == 3
MaxSpecs == 2

MarkerIds == 1..NumMarkers

NoArg == <<"", 0>>

\* What the SDK may report of cube c: two places in the robot's frame, and
\* a pose of another frame (origin_id differs from the robot's)
CubeStates(c) ==
  [pose : {Pose(30 * c, 0, 0, 0, cmp) : cmp \in BOOLEAN}
          \cup {Pose(0, 40 * c, 5, 1, TRUE)},
   is_visible : BOOLEAN]

CustomStates(k) ==
  [pose : {Pose(30 * k, 0, 0, 0, cmp) : cmp \in BOOLEAN}
          \cup {Pose(0, 40 * k, 5, 1, TRUE)},
   is_visible : BOOLEAN, object_type : {k}]

FaceNames == {"", "Alice"}

FacePoses == {NullPose, Pose(60, 0, 9, 0, TRUE), Pose(0, 70, 8, 1, TRUE)}

\* The detector reports the expression with the pose
FaceExpression(pose) == IF pose.x > 0 THEN "happy" ELSE "unknown"

FaceStates(f) ==
  { [face_id |-> f, name |-> n, pose |-> p, is_visible |-> v,
     expression |-> FaceExpression(p)] :
    n \in FaceNames, p \in FacePoses, v \in BOOLEAN }

\* robot.pose (raw), particle_filter.pose (filtered) and the kinematic
\* transform world <- lift_attach, as they may be read together
RobotConfigs ==
  { [pose |-> [x |-> 0, y |-> 0, theta |-> 0],
     pf   |-> [x |-> 0, y |-> 0, theta |-> 0],
     tmat |-> [tx |-> 50, ty |-> 0, rot |-> 0]],
    [pose |-> [x |-> 10, y |-> 0, theta |-> 0],
     pf   |-> [x |-> 5, y |-> 5, theta |-> 1],
     tmat |-> [tx |-> 5, ty |-> 55, rot |-> 1]] }

RobotWith(cfg, carrying) ==
  [pose |-> cfg.pose, pf |-> cfg.pf, tmat |-> cfg.tmat, carrying |-> carrying]

\* Where the particle filter puts marker m
LandmarkOf(m) == [x |-> 100, y |-> 50 * (m % 2), orient |-> m % 2]

\* The markers argument of WallSpec: marker id -> offset along the wall
MarkerChoices == { [m \in S |-> 10 * m] : S \in SUBSET MarkerIds }

\* Walls that carry two markers
WallChoices == { markers \in MarkerChoices : Cardinality(DOMAIN markers) = 2 }

Init ==
  /\ objects = <<>>
  /\ heap = <<>>
  /\ wall_marker_dict = <<>>
  /\ wall_specs = <<>>
  /\ light_cubes = [c \in CubeIds |-> [pose |-> NullPose, is_visible |-> FALSE]]
  /\ custom_objects = [k \in CustomIds |->
       [pose |-> Pose(30, 0, 0, 0, FALSE), is_visible |-> FALSE, object_type |-> k]]
  /\ faces = [f \in FaceIds |->
       [face_id |-> f, name |-> "", pose |-> NullPose, is_visible |-> FALSE,
        expression |-> "unknown"]]
  /\ robot = RobotWith(CHOOSE cfg \in RobotConfigs : cfg.pose = cfg.pf, <<>>)
  /\ landmarks = <<>>
  /\ last = [op |-> "init", arg |-> NoArg]

-----------------------------------------------------------------------------
(* Steps of the collaborators *)

Env == last' = [op |-> "env", arg |-> NoArg]

\* The SDK reports a cube: its pose, once set, is never None again
CubeSensed(c, s) ==
  /\ s # light_cubes[c]
  /\ light_cubes' = [light_cubes EXCEPT ![c] = s]
  /\ Env
  /\ UNCHANGED <<objects, heap, wall_marker_dict, wall_specs, custom_objects,
                 faces, robot, landmarks>>

CustomSensed(k, s) ==
  /\ s # custom_objects[k]
  /\ custom_objects' = [custom_objects EXCEPT ![k] = s]
  /\ Env
  /\ UNCHANGED <<objects, heap, wall_marker_dict, wall_specs, light_cubes,
                 faces, robot, landmarks>>

FaceSensed(f, s) ==
  /\ s # faces[f]
  /\ faces' = [faces EXCEPT ![f] = s]
  /\ Env
  /\ UNCHANGED <<objects, heap, wall_marker_dict, wall_specs, light_cubes,
                 custom_objects, robot, landmarks>>

\* The robot moves, or the particle filter or the kinematics change
RobotMoves(cfg) ==
  /\ robot' = RobotWith(cfg, robot.carrying)
  /\ robot' # robot
  /\ Env
  /\ UNCHANGED <<objects, heap, wall_marker_dict, wall_specs, light_cubes,
                 custom_objects, faces, landmarks>>

\* robot.carrying = world_obj, set by the pick-up behaviour
PickUp(c) ==
  /\ robot.carrying = <<>>
  /\ Has(objects, CubeKey(c))
  /\ robot' = [robot EXCEPT !.carrying = <<Get(objects, CubeKey(c))>>]
  /\ Env
  /\ UNCHANGED <<objects, heap, wall_marker_dict, wall_specs, light_cubes,
                 custom_objects, faces, landmarks>>

\* robot.carrying = None, set by the drop behaviour
PutDown ==
  /\ robot.carrying # <<>>
  /\ robot' = [robot EXCEPT !.carrying = <<>>]
  /\ Env
  /\ UNCHANGED <<objects, heap, wall_marker_dict, wall_specs, light_cubes,
                 custom_objects, faces, landmarks>>

\* world_obj.update_from_sdk = False, set by a behaviour that knows the
\* object is held or dropped
StopUpdating(key) ==
  /\ Has(objects, key)
  /\ heap[Get(objects, key)].update_from_sdk
  /\ heap' = [heap EXCEPT ![Get(objects, key)].update_from_sdk = FALSE]
  /\ Env
  /\ UNCHANGED <<objects, wall_marker_dict, wall_specs, light_cubes,
                 custom_objects, faces, robot, landmarks>>

\* The particle filter adds a landmark
LandmarkSensed(m, v) ==
  /\ landmarks' = Put(landmarks, m, v)
  /\ landmarks' # landmarks
  /\ Env
  /\ UNCHANGED <<objects, heap, wall_marker_dict, wall_specs, light_cubes,
                 custom_objects, faces, robot>>

\* The particle filter drops a landmark
LandmarkLost(m) ==
  /\ Has(landmarks, m)
  /\ landmarks' = Pop(landmarks, m)
  /\ Env
  /\ UNCHANGED <<objects, heap, wall_marker_dict, wall_specs, light_cubes,
                 custom_objects, faces, robot>>

-----------------------------------------------------------------------------
(* Operations of the module *)

\* A handler runs on the current map and returns
Returns(M, op, arg) ==
  /\ objects' = M.objects
  /\ heap' = Collect(M, robot.carrying)
  /\ last' = [op |-> op, arg |-> arg]
  /\ UNCHANGED <<wall_marker_dict, wall_specs, light_cubes, custom_objects,
                 faces, robot, landmarks>>

Now == MapState(objects, heap)

UpdateCube(c) == Returns(update_cube(Now, c), "update_cube", CubeKey(c))

UpdateCustomObject(k) ==
  Returns(update_custom_object(Now, k), "update_custom_object", CustomKey(k))

UpdateFace(f) == Returns(update_face(Now, f), "update_face", FaceKey(f))

\* handle_object_observed(evt): evt.obj is the SDK object behind key
HandleObjectObserved(key) ==
  \/ /\ key[1] = "LightCube"
     /\ UpdateCube(key[2])
  \/ /\ key[1] = "CustomObject"
     /\ UpdateCustomObject(key[2])
  \/ /\ key[1] = "Face"
     /\ UpdateFace(key[2])

UpdateMap == Returns(update_map(Now), "update_map", NoArg)

\* WallSpec whose id falls back to 0 when there are no marker ids
WallSpecInit_defaulting_id(length, markers) ==
  LET self == [id |-> IF DOMAIN markers = {} THEN 0 ELSE Min(DOMAIN markers),
               length |-> length, height |-> 210, door_width |-> 75,
               door_height |-> 105, markers |-> markers]
  IN  /\ Len(wall_specs) < MaxSpecs
      /\ wall_marker_dict' = RegisterMarkers(wall_marker_dict, DOMAIN markers, self)
      /\ wall_specs' = Append(wall_specs, self)
      /\ last' = [op |-> "WallSpec", arg |-> <<"ok", self.id>>]
      /\ UNCHANGED <<objects, heap, light_cubes, custom_objects, faces,
                     robot, landmarks>>

\* WallSpec(length=length, markers=markers): min() of no ids raises
\* ValueError before the registry is touched
WallSpecInit(length, markers) ==
  IF DOMAIN markers = {}
  THEN /\ last' = [op |-> "WallSpec", arg |-> <<"ValueError", 0>>]
       /\ UNCHANGED <<objects, heap, wall_marker_dict, wall_specs, light_cubes,
                      custom_objects, faces, robot, landmarks>>
  ELSE LET self == WallSpecObj(length, 210, 105, markers)
       IN  /\ Len(wall_specs) < MaxSpecs
           /\ wall_marker_dict' = RegisterMarkers(wall_marker_dict, DOMAIN markers, self)
           /\ wall_specs' = Append(wall_specs, self)
           /\ last' = [op |-> "WallSpec", arg |-> <<"ok", self.id>>]
           /\ UNCHANGED <<objects, heap, light_cubes, custom_objects, faces,
                          robot, landmarks>>

-----------------------------------------------------------------------------
(* Specifications *)

CubeSteps ==
  \/ \E c \in CubeIds : \E s \in CubeStates(c) : CubeSensed(c, s)
  \/ \E cfg \in RobotConfigs : RobotMoves(cfg)
  \/ \E c \in CubeIds : PickUp(c)
  \/ PutDown
  \/ \E c \in CubeIds : StopUpdating(CubeKey(c))
  \/ \E c \in CubeIds : UpdateCube(c)
  \/ UpdateMap

CustomSteps ==
  \/ \E k \in CustomIds : \E s \in CustomStates(k) : CustomSensed(k, s)
  \/ \E cfg \in RobotConfigs : RobotMoves(cfg)
  \/ \E k \in CustomIds : StopUpdating(CustomKey(k))
  \/ \E k \in CustomIds : UpdateCustomObject(k)
  \/ UpdateMap

FaceSteps ==
  \/ \E f \in FaceIds : \E s \in FaceStates(f) : FaceSensed(f, s)
  \/ \E f \in FaceIds : UpdateFace(f)
  \/ UpdateMap

RegistrySteps == \E markers \in MarkerChoices : WallSpecInit(100, markers)

WallSteps ==
  \/ \E markers \in WallChoices : WallSpecInit(100, markers)
  \/ \E m \in MarkerIds : LandmarkSensed(m, LandmarkOf(m))
  \/ UpdateMap

\* Walls on two neighbouring markers, while landmarks come and go
WallPassSteps ==
  \/ \E markers \in {w \in WallChoices : \E a \in MarkerIds : DOMAIN w = {a, a + 1}} :
       WallSpecInit(100, markers)
  \/ \E m \in MarkerIds : LandmarkSensed(m, LandmarkOf(m))
  \/ \E m \in MarkerIds : LandmarkLost(m)
  \/ UpdateMap

\* Cubes and the carry state
SpecCubes == Init /\ [][CubeSteps]_vars

\* Custom objects
SpecCustom == Init /\ [][CustomSteps]_vars

\* The wall registry: WallSpec constructions of every marker set
SpecRegistry == Init /\ [][RegistrySteps]_vars

\* Faces
SpecFaces == Init /\ [][FaceSteps]_vars

\* Wall inference over registered walls and detected landmarks
SpecWalls == Init /\ [][WallSteps]_vars

\* Wall inference passes over landmarks that appear and disappear
SpecWallPass == Init /\ [][WallPassSteps]_vars

\* Coordinate fusion as a function of its inputs: the raw and the filtered
\* pose of the robot and the pose that the first cube, custom object and face
\* report are drawn at the start and stay as they are; the handlers apply
\* update_coords to them.  Headings and yaws range over a turn and a half.
CoordTurns == -2..3

CoordPlaces == {[x |-> 0, y |-> 0], [x |-> 10, y |-> -5]}

CoordRobots ==
  { [pose |-> [x |-> p.x, y |-> p.y, theta |-> t],
     pf   |-> [x |-> q.x, y |-> q.y, theta |-> u],
     tmat |-> [tx |-> 50, ty |-> 0, rot |-> 0]] :
    p \in CoordPlaces, q \in CoordPlaces, t \in CoordTurns, u \in CoordTurns }

CoordPoses ==
  { Pose(at[1], at[2], at[3], yaw, TRUE) :
    at \in {<<30, 0, 0>>, <<0, 40, 5>>, <<10, -5, 3>>}, yaw \in CoordTurns }

InitCoords ==
  \E cfg \in CoordRobots, p \in CoordPoses, v \in BOOLEAN :
    /\ objects = <<>>
    /\ heap = <<>>
    /\ wall_marker_dict = <<>>
    /\ wall_specs = <<>>
    /\ light_cubes = [c \in CubeIds |->
         IF c = 1 THEN [pose |-> p, is_visible |-> v]
                  ELSE [pose |-> NullPose, is_visible |-> FALSE]]
    /\ custom_objects = [k \in CustomIds |->
         IF k = 1 THEN [pose |-> p, is_visible |-> v, object_type |-> k]
                  ELSE [pose |-> Pose(30, 0, 0, 0, FALSE), is_visible |-> FALSE,
                        object_type |-> k]]
    /\ faces = [f \in FaceIds |->
         IF f = 1 THEN [face_id |-> f, name |-> "Alice", pose |-> p,
                        is_visible |-> v, expression |-> "happy"]
                  ELSE [face_id |-> f, name |-> "", pose |-> NullPose,
                        is_visible |-> FALSE, expression |-> "unknown"]]
    /\ robot = RobotWith(cfg, <<>>)
    /\ landmarks = <<>>
    /\ last = [op |-> "init", arg |-> NoArg]

CoordSteps ==
  \/ \E c \in CubeIds : UpdateCube(c)
  \/ \E k \in CustomIds : UpdateCustomObject(k)
  \/ \E f \in FaceIds : UpdateFace(f)

SpecCoords == InitCoords /\ [][CoordSteps]_vars

\* Every operation together, over the sensor reports that create, lose and
\* re-identify objects: one pose per sensor object, one face name, the robot
\* at rest
SeenCubeStates(c) == [pose : {Pose(30 * c, 0, 0, 0, TRUE)}, is_visible : {TRUE}]

SeenCustomStates(k) ==
  [pose : {Pose(0, 40 * k, 5, 1, TRUE)}, is_visible : {TRUE}, object_type : {k}]

SeenFaceStates(f) ==
  { [face_id |-> f, name |-> "Alice", pose |-> Pose(60 * f, f, 9, 0, TRUE),
     is_visible |-> v, expression |-> "happy"] : v \in BOOLEAN }

Next ==
  \/ \E c \in CubeIds : \E s \in SeenCubeStates(c) : CubeSensed(c, s)
  \/ \E k \in CustomIds : \E s \in SeenCustomStates(k) : CustomSensed(k, s)
  \/ \E f \in FaceIds : \E s \in SeenFaceStates(f) : FaceSensed(f, s)
  \/ \E m \in 1..2 : LandmarkSensed(m, LandmarkOf(m))
  \/ WallSpecInit(100, [m \in 1..2 |-> 10 * m])
  \/ \E key \in {CubeKey(c) : c \in CubeIds} \cup {CustomKey(k) : k \in CustomIds}
                \cup {FaceKey(f) : f \in FaceIds} : HandleObjectObserved(key)
  \/ \E c \in CubeIds : UpdateCube(c)
  \/ \E k \in CustomIds : UpdateCustomObject(k)
  \/ \E f \in FaceIds : UpdateFace(f)
  \/ UpdateMap

Spec == Init /\ [][Next]_vars

-----------------------------------------------------------------------------
(* Properties *)

Ran(op, key) == last'.op = op /\ last'.arg = key

TrackedKeys(kinds) == {k \in Keys(objects) : k[1] \in kinds}

Entity(key) == heap[Get(objects, key)]

\* C1: an update_cube or update_custom_object call whose observation has a
\* pose that is not comparable to the robot's pose changes nothing: no entity
\* is created and no field of a tracked entity changes, tracked or not.
C1_IncomparableDropped ==
  [][ /\ \A c \in CubeIds :
           ( /\ Ran("update_cube", CubeKey(c))
             /\ (light_cubes[c].pose.null \/ ~light_cubes[c].pose.comparable) )
           => (objects' = objects /\ heap' = heap)
      /\ \A k \in CustomIds :
           (Ran("update_custom_object", CustomKey(k))
              /\ ~custom_objects[k].pose.comparable)
           => (objects' = objects /\ heap' = heap) ]_vars

\* C2: while the robot carries a tracked cube entity, an update_cube call for
\* that cube, from an observation event or from update_map, sets x and y to
\* the kinematic attach point and theta to the filtered heading and changes
\* nothing else of the entity, whatever the sensor reports.
C2_CarriedProjection ==
  [][ \A c \in CubeIds :
        ( /\ Has(objects, CubeKey(c))
          /\ robot.carrying = <<Get(objects, CubeKey(c))>>
          /\ (Ran("update_cube", CubeKey(c)) \/ last'.op = "update_map") )
        => LET o == Get(objects, CubeKey(c))
           IN  /\ Has(objects', CubeKey(c))
               /\ Get(objects', CubeKey(c)) = o
               /\ heap'[o] = [heap[o] EXCEPT
                    !.x = robot.tmat.tx + half_width * CosQ(robot.tmat.rot),
                    !.y = robot.tmat.ty + half_width * SinQ(robot.tmat.rot),
                    !.theta = robot.pf.theta] ]_vars

\* C2 witness: update_cube has just run for a carried cube that is visible
\* with a comparable pose and update_from_sdk set, and the entity sits at the
\* attach point, not where the observation would put it.
C2_Witness ==
  \E c \in CubeIds :
    /\ last = [op |-> "update_cube", arg |-> CubeKey(c)]
    /\ Has(objects, CubeKey(c))
    /\ robot.carrying = <<Get(objects, CubeKey(c))>>
    /\ light_cubes[c].is_visible
    /\ light_cubes[c].pose.comparable
    /\ Entity(CubeKey(c)).update_from_sdk
    /\ robot.pose # robot.pf
    /\ Entity(CubeKey(c)).x = robot.tmat.tx + half_width * CosQ(robot.tmat.rot)
    /\ Entity(CubeKey(c)).y = robot.tmat.ty + half_width * SinQ(robot.tmat.rot)
    /\ Entity(CubeKey(c)).theta = robot.pf.theta

\* The Face keys of the map that stand for name n: the handle reports n, or
\* the entity stores n
FaceKeysFor(objs, hp, n) ==
  {k \in Keys(objs) : k[1] = "Face"
                       /\ (faces[k[2]].name = n \/ hp[Get(objs, k)].name = n)}

\* C3: when the only Face entity for a name is the one created under handle
\* h1, h1 is not visible, and update_face runs for another handle h2 that
\* reports the same name and is visible (with a pose), then afterwards the
\* map holds exactly one Face entity for the name, the same object as before,
\* keyed by h2, and h1 is no longer a key.
C3_FaceReidentified ==
  [][ \A h1, h2 \in FaceIds :
        ( /\ h1 # h2
          /\ Ran("update_face", FaceKey(h2))
          /\ faces[h1].name = faces[h2].name
          /\ ~faces[h1].is_visible
          /\ faces[h2].is_visible
          /\ ~faces[h2].pose.null
          /\ FaceKeysFor(objects, heap, faces[h2].name) = {FaceKey(h1)}
          /\ Entity(FaceKey(h1)).name = faces[h2].name
          /\ Entity(FaceKey(h1)).sdk_obj = FaceKey(h1) )
        => /\ FaceKeysFor(objects', heap', faces[h2].name) = {FaceKey(h2)}
           /\ Get(objects', FaceKey(h2)) = Get(objects, FaceKey(h1))
           /\ ~Has(objects', FaceKey(h1))
           /\ Len(objects') = Len(objects) ]_vars

\* C3 witness: update_face has just run for a visible handle h2, and the
\* entity under h2 is the one created under a handle h1 of the same name
\* that is no longer visible and no longer a key.
C3_Witness ==
  \E h1, h2 \in FaceIds :
    /\ h1 # h2
    /\ last = [op |-> "update_face", arg |-> FaceKey(h2)]
    /\ faces[h1].name = "Alice" /\ faces[h2].name = "Alice"
    /\ ~faces[h1].is_visible /\ faces[h2].is_visible
    /\ Has(objects, FaceKey(h2))
    /\ ~Has(objects, FaceKey(h1))
    /\ Entity(FaceKey(h2)).sdk_obj = FaceKey(h1)
    /\ Entity(FaceKey(h2)).name = "Alice"
    /\ FaceKeysFor(objects, heap, "Alice") = {FaceKey(h2)}

NameTracked(n) == \E k \in TrackedKeys({"Face"}) : faces[k[2]].name = n

\* C7 as claimed: an update_face for a handle that is not visible and whose
\* name matches no tracked face adds no entry to the map.
C7_CreatedOnlyWhenVisible ==
  [][ \A f \in FaceIds :
        ( /\ Ran("update_face", FaceKey(f))
          /\ ~faces[f].is_visible
          /\ ~NameTracked(faces[f].name) )
        => Keys(objects') = Keys(objects) ]_vars

\* C7 as amended: a Face key enters the map only for a handle with a pose;
\* an update_face for a handle that is not visible and whose name matches no
\* tracked face adds no entry when the pose is null, and otherwise adds the
\* handle with a new FaceObj whose is_visible is false.
C7_CreatedWhenPosed ==
  [][ /\ \A k \in Keys(objects') \ Keys(objects) :
           k[1] = "Face" =>
             /\ ~faces[k[2]].pose.null
             /\ (Ran("update_face", k) \/ last'.op = "update_map")
      /\ \A f \in FaceIds :
           ( /\ Ran("update_face", FaceKey(f))
             /\ ~faces[f].is_visible
             /\ ~NameTracked(faces[f].name) )
           => IF faces[f].pose.null
              THEN objects' = objects /\ heap' = heap
              ELSE /\ Keys(objects') = Keys(objects) \cup {FaceKey(f)}
                   /\ ~Has(objects, FaceKey(f))
                   /\ Get(objects', FaceKey(f)) \notin DOMAIN heap
                   /\ heap'[Get(objects', FaceKey(f))] =
                        FaceObj(FaceKey(f), f, faces[f].pose.x, faces[f].pose.y,
                                faces[f].pose.z, faces[f].name)
                   /\ ~heap'[Get(objects', FaceKey(f))].is_visible ]_vars

\* C7 witness: update_face has just run for a handle that is not visible, and
\* the map holds the FaceObj it created: not visible, coordinates never fused.
C7_Witness ==
  \E f \in FaceIds :
    /\ last = [op |-> "update_face", arg |-> FaceKey(f)]
    /\ ~faces[f].is_visible
    /\ Has(objects, FaceKey(f))
    /\ Entity(FaceKey(f)).sdk_obj = FaceKey(f)
    /\ Entity(FaceKey(f)).theta = <<>>
    /\ ~Entity(FaceKey(f)).is_visible

\* C8: update_face for a handle whose pose is null changes nothing: the map's
\* keys, every is_visible flag and every other field stay as they are.
C8_NullPoseNoOp ==
  [][ \A f \in FaceIds :
        (Ran("update_face", FaceKey(f)) /\ faces[f].pose.null)
        => (objects' = objects /\ heap' = heap) ]_vars

\* C8 witness: update_face has just run for a handle with a null pose that is
\* visible, while a face of the same name is tracked, not visible, under
\* another handle, which is still its key.
C8_Witness ==
  \E f, g \in FaceIds :
    /\ f # g
    /\ last = [op |-> "update_face", arg |-> FaceKey(f)]
    /\ faces[f].pose.null
    /\ faces[f].is_visible
    /\ faces[g].name = faces[f].name
    /\ Has(objects, FaceKey(g))
    /\ ~Has(objects, FaceKey(f))
    /\ ~Entity(FaceKey(g)).is_visible

\* x, y, z and theta of every entity under a key of kinds
Poses(objs, hp, kinds) ==
  [k \in {q \in Keys(objs) : q[1] \in kinds} |->
     <<hp[Get(objs, k)].x, hp[Get(objs, k)].y, hp[Get(objs, k)].z,
       hp[Get(objs, k)].theta>>]

SensorKinds == {"LightCube", "CustomObject", "Face"}

\* C4: an update_map call that directly follows an update_map call, with
\* nothing reported by a sensor or the robot in between, leaves the keys and
\* x, y, z, theta of every cube, custom-object and face entity as the first
\* call left them.
C4_UpdateMapIdempotent ==
  [][ (last.op = "update_map" /\ last'.op = "update_map")
      => Poses(objects', heap', SensorKinds) = Poses(objects, heap, SensorKinds) ]_vars

\* C4 witness: update_map has run with a cube, a custom object and a face
\* tracked, the face under a handle other than the one it was created under,
\* while both handles of its name are visible at different positions.
C4_Witness ==
  /\ last.op = "update_map"
  /\ TrackedKeys({"LightCube"}) # {}
  /\ TrackedKeys({"CustomObject"}) # {}
  /\ \E f, g \in FaceIds :
       /\ f # g
       /\ Has(objects, FaceKey(g))
       /\ Entity(FaceKey(g)).sdk_obj = FaceKey(f)
       /\ faces[f].is_visible /\ faces[g].is_visible
       /\ faces[f].name = faces[g].name
       /\ faces[f].pose # faces[g].pose

\* C5: after every update_map call, the is_visible flag of every tracked
\* cube, custom-object and face entity equals the visibility its sensor
\* object reports.
C5_VisibleNotSticky ==
  last.op = "update_map"
  => \A k \in TrackedKeys(SensorKinds) : Entity(k).is_visible = Sdk(k).is_visible

\* C9: a cube or custom-object key of the map stays a key, bound to the same
\* entity object, across every step.
C9_NeverRemoved ==
  [][ \A k \in TrackedKeys({"LightCube", "CustomObject"}) :
        Has(objects', k) /\ Get(objects', k) = Get(objects, k) ]_vars

\* C9 witness: update_map has run while a cube and a custom object are
\* tracked next to a wall and a face that was re-keyed to another handle.
C9_Witness ==
  /\ last.op = "update_map"
  /\ TrackedKeys({"LightCube"}) # {}
  /\ TrackedKeys({"CustomObject"}) # {}
  /\ TrackedKeys({"int"}) # {}
  /\ \E k \in TrackedKeys({"Face"}) : Entity(k).sdk_obj # k
  /\ objects[1].key[1] \in {"LightCube", "CustomObject"}

\* The walls a wall-inference pass over the landmarks dict lm builds
WallsBuilt(lm) ==
  LET M == GenerateWalls(MapState(<<>>, <<>>), lm)
  IN  [k \in Keys(M.objects) |-> M.heap[Get(M.objects, k)]]

\* The wall that a detected marker of a registered wall stands for
WallOfMarker(entry) ==
  LET ws == Get(wall_marker_dict, entry.key)
      dist == (ws.length \div 2) - ws.markers[entry.key]
  IN  WallObj(ws.id,
              entry.obj.x + dist * CosQ(entry.obj.orient - 1),
              entry.obj.y + dist * SinQ(entry.obj.orient - 1),
              entry.obj.orient, ws.length, ws.height, ws.door_height)

\* C6 as claimed: the walls inferred from the detected landmarks are the same
\* for every iteration order of the landmark dictionary.
C6_OrderIndependent ==
  \A p \in Permutations(DOMAIN landmarks) :
    WallsBuilt([i \in DOMAIN landmarks |-> landmarks[p[i]]]) = WallsBuilt(landmarks)

\* C6 as amended: after update_map, the wall of every wall id with a detected
\* marker is the wall of the first marker, in the iteration order of the
\* landmark dictionary, that the registry maps to that wall id.
C6_FirstMarkerWins ==
  last.op = "update_map"
  => \A i \in DOMAIN landmarks :
       ( /\ Has(wall_marker_dict, landmarks[i].key)
         /\ \A j \in 1..(i - 1) :
              Has(wall_marker_dict, landmarks[j].key)
              => Get(wall_marker_dict, landmarks[j].key).id
                 # Get(wall_marker_dict, landmarks[i].key).id )
       => LET key == IntKey(Get(wall_marker_dict, landmarks[i].key).id)
          IN  Has(objects, key) /\ Entity(key) = WallOfMarker(landmarks[i])

\* C6 witness: update_map has run with two detected markers of one wall that
\* stand for different walls, and the map holds the wall of the first.
C6_Witness ==
  /\ last.op = "update_map"
  /\ \E i, j \in DOMAIN landmarks :
       /\ i < j
       /\ Has(wall_marker_dict, landmarks[i].key)
       /\ Has(wall_marker_dict, landmarks[j].key)
       /\ Get(wall_marker_dict, landmarks[i].key).id
            = Get(wall_marker_dict, landmarks[j].key).id
       /\ landmarks[i].key > landmarks[j].key
       /\ WallOfMarker(landmarks[i]) # WallOfMarker(landmarks[j])
       /\ \A h \in 1..(i - 1) : ~Has(wall_marker_dict, landmarks[h].key)
       /\ Entity(IntKey(Get(wall_marker_dict, landmarks[i].key).id))
            = WallOfMarker(landmarks[i])

MarkersDisjoint ==
  \A i, j \in DOMAIN wall_specs :
    i # j => DOMAIN wall_specs[i].markers \cap DOMAIN wall_specs[j].markers = {}

\* C10: every registered spec has the minimum of its marker ids as id; and
\* when the marker-id sets of the registered specs are pairwise disjoint,
\* distinct specs have distinct ids, the registry maps every marker id of a
\* spec to that spec and nothing else, and maps the spec's id to the spec.
C10_Registry ==
  /\ \A i \in DOMAIN wall_specs :
       wall_specs[i].id = Min(DOMAIN wall_specs[i].markers)
  /\ MarkersDisjoint =>
       /\ \A i, j \in DOMAIN wall_specs :
            i # j => wall_specs[i].id # wall_specs[j].id
       /\ \A i \in DOMAIN wall_specs :
            /\ \A m \in DOMAIN wall_specs[i].markers :
                 RegistryGet(m) = <<wall_specs[i]>>
            /\ RegistryGet(wall_specs[i].id) = <<wall_specs[i]>>
       /\ Keys(wall_marker_dict) =
            UNION {DOMAIN wall_specs[i].markers : i \in DOMAIN wall_specs}

\* C10 witness: two specs with disjoint marker sets are registered, one of
\* them with two markers, the lower of which is not its first in the registry.
C10_Witness ==
  /\ last.op = "WallSpec"
  /\ Len(wall_specs) = 2
  /\ MarkersDisjoint
  /\ \E i \in DOMAIN wall_specs : Cardinality(DOMAIN wall_specs[i].markers) = 2
  /\ wall_specs[1].id > wall_specs[2].id

-----------------------------------------------------------------------------
(* Coordinate fusion *)

\* The step is a handler call for key that runs update_coords on the entity
\* bound to key
Corrects(key) ==
  \/ /\ key[1] = "CustomObject"
     /\ Ran("update_custom_object", key)
     /\ Sdk(key).pose.comparable
  \/ /\ key[1] = "LightCube"
     /\ Ran("update_cube", key)
     /\ IF Has(objects, key)
        THEN /\ robot.carrying # <<Get(objects, key)>>
             /\ (Sdk(key).is_visible \/ Entity(key).update_from_sdk)
        ELSE ~Sdk(key).pose.null /\ Sdk(key).pose.comparable
  \/ /\ key[1] = "Face"
     /\ Ran("update_face", key)
     /\ ~Sdk(key).pose.null
     /\ Sdk(key).is_visible

ThetaOf(e) == IF e.cls = "FaceObj" THEN e.theta[1] ELSE e.theta

SensorKeys ==
  {CubeKey(c) : c \in CubeIds} \cup {CustomKey(k) : k \in CustomIds}
  \cup {FaceKey(f) : f \in FaceIds}

\* C11: when the raw pose equals the filtered pose, a handler call that runs
\* update_coords leaves the entity at the raw position plus the offset
\* (dx, dy), which is the position the sensor reports, with z as reported
\* and theta the wrapped yaw of the target.
C11_IdentityReprojection ==
  [][ \A key \in SensorKeys :
        (Corrects(key) /\ robot.pose = robot.pf)
        => LET e == heap'[Get(objects', key)]
               dx == Sdk(key).pose.x - robot.pose.x
               dy == Sdk(key).pose.y - robot.pose.y
           IN  /\ e.x = robot.pose.x + dx /\ e.x = Sdk(key).pose.x
               /\ e.y = robot.pose.y + dy /\ e.y = Sdk(key).pose.y
               /\ e.z = Sdk(key).pose.z
               /\ ThetaOf(e) = wrap_angle(Sdk(key).pose.yaw) ]_vars

\* C11 witness: a handler has corrected an entity while the raw and the
\* filtered pose agree away from the origin with a heading that is not zero,
\* the target off the robot's position, its yaw outside the wrapped range.
C11_Witness ==
  \E key \in SensorKeys :
    /\ last.op \in {"update_cube", "update_custom_object", "update_face"}
    /\ last.arg = key
    /\ Has(objects, key)
    /\ robot.pose = robot.pf
    /\ robot.pose.x # 0 /\ robot.pose.theta = 1
    /\ Sdk(key).is_visible
    /\ Sdk(key).pose.x # robot.pose.x
    /\ Sdk(key).pose.yaw = 3
    /\ Entity(key).x = Sdk(key).pose.x /\ Entity(key).y = Sdk(key).pose.y
    /\ ThetaOf(Entity(key)) = -1

\* C12: after every handler call that runs update_coords, whatever the raw
\* heading, the filtered heading and the target's yaw, the entity's theta
\* lies in (-pi, pi] (here -1..2 quarter turns) and wrapping it again gives
\* the same angle.
C12_ThetaWrapped ==
  [][ \A key \in SensorKeys :
        Corrects(key)
        => LET theta == ThetaOf(heap'[Get(objects', key)])
           IN  /\ theta \in -1..2
               /\ wrap_angle(theta) = theta
               /\ (theta - (Sdk(key).pose.yaw + robot.pf.theta - robot.pose.theta))
                    % 4 = 0 ]_vars

\* C12 witness: a handler has corrected an entity whose yaw plus the heading
\* correction lies outside the wrapped range, and theta is inside it.
C12_Witness ==
  \E key \in SensorKeys :
    /\ last.op \in {"update_cube", "update_custom_object", "update_face"}
    /\ last.arg = key
    /\ Has(objects, key)
    /\ Sdk(key).is_visible
    /\ robot.pose.theta = -2 /\ robot.pf.theta = 3
    /\ Sdk(key).pose.yaw = 3
    /\ ThetaOf(Entity(key)) = 0

-----------------------------------------------------------------------------
(* Custom objects and update_map *)

\* The custom-object entries of a map: key -> the object and its fields
CustomEntities(objs, hp) ==
  [k \in {q \in Keys(objs) : q[1] = "CustomObject"} |->
     <<Get(objs, k), hp[Get(objs, k)]>>]

-----------------------------------------------------------------------------
(* Face names *)

\* C14: no two Face entries of the map hold entities with the same stored
\* name, because update_face resolves an observation to the tracked entity
\* whose stored name is the observation's name, also when the handle it is
\* keyed under reports another name by now.
C14_StoredNameUnique ==
  \A k1, k2 \in TrackedKeys({"Face"}) :
    Entity(k1).name = Entity(k2).name => k1 = k2

-----------------------------------------------------------------------------
(* The cube state machine *)

\* The observation-to-world correction of entity e from sensor object sdk:
\* the offset from the raw pose, turned by the heading correction, laid off
\* from the filtered pose
Corrected(e, sdk) ==
  LET dx == sdk.pose.x - robot.pose.x
      dy == sdk.pose.y - robot.pose.y
      d == robot.pf.theta - robot.pose.theta
  IN  [e EXCEPT !.x = robot.pf.x + dx * CosQ(d) - dy * SinQ(d),
                !.y = robot.pf.y + dx * SinQ(d) + dy * CosQ(d),
                !.z = sdk.pose.z,
                !.theta = wrap_angle(sdk.pose.yaw + wrap_angle(d)),
                !.is_visible = sdk.is_visible]

\* C15: update_cube for a tracked cube that is not carried, called directly
\* or from update_map: when the cube is visible, update_from_sdk is true
\* afterwards and the entity is corrected; when it is not visible and
\* update_from_sdk is false, the entity is left as it is; when
\* update_from_sdk is true, the entity is corrected, visible or not.
C15_CubeStateMachine ==
  [][ \A c \in CubeIds :
        ( /\ Ran("update_cube", CubeKey(c)) \/ last'.op = "update_map"
          /\ Has(objects, CubeKey(c))
          /\ robot.carrying # <<Get(objects, CubeKey(c))>> )
        => LET o == Get(objects, CubeKey(c))
               cube == light_cubes[c]
           IN  /\ Has(objects', CubeKey(c)) /\ Get(objects', CubeKey(c)) = o
               /\ cube.is_visible =>
                    /\ heap'[o].update_from_sdk
                    /\ heap'[o] =
                         Corrected([heap[o] EXCEPT !.update_from_sdk = TRUE], cube)
               /\ (~cube.is_visible /\ ~heap[o].update_from_sdk) =>
                    heap'[o] = heap[o]
               /\ heap[o].update_from_sdk => heap'[o] = Corrected(heap[o], cube) ]_vars

\* C15 witness: update_cube has just run for a tracked cube that is put down,
\* not visible and not updating, whose sensor reports another place than the
\* entity holds; the entity is not visible-refreshed and keeps its place.
C15_Witness ==
  \E c \in CubeIds :
    /\ last = [op |-> "update_cube", arg |-> CubeKey(c)]
    /\ Has(objects, CubeKey(c))
    /\ robot.carrying = <<>>
    /\ ~light_cubes[c].is_visible
    /\ light_cubes[c].pose.comparable
    /\ ~Entity(CubeKey(c)).update_from_sdk
    /\ Entity(CubeKey(c)).z # light_cubes[c].pose.z
    /\ Entity(CubeKey(c)).is_visible

-----------------------------------------------------------------------------
(* The wall-inference pass *)

\* The wall ids of the detected markers that have a registry entry
DetectedWalls ==
  {Get(wall_marker_dict, landmarks[i].key).id :
     i \in {j \in DOMAIN landmarks : Has(wall_marker_dict, landmarks[j].key)}}

WallKeys(objs) == {k \in Keys(objs) : k[1] = "int"}

\* C16: in every state, a wall-inference pass writes exactly the keys of the
\* wall ids of the detected markers that have a registry entry, each with a
\* new WallObj whose id is its key; no other key is added, and every other
\* entry, a wall without a detected marker included, keeps its object and
\* every object keeps its fields.
C16_WallPassFrame ==
  LET M == generate_walls_from_markers(Now)
      written == {IntKey(w) : w \in DetectedWalls}
  IN  /\ Keys(M.objects) = Keys(objects) \cup written
      /\ \A k \in written :
           /\ Get(M.objects, k) \notin DOMAIN heap
           /\ M.heap[Get(M.objects, k)].cls = "WallObj"
           /\ M.heap[Get(M.objects, k)].id = k[2]
      /\ \A k1, k2 \in written :
           Get(M.objects, k1) = Get(M.objects, k2) => k1 = k2
      /\ \A k \in Keys(objects) \ written : Get(M.objects, k) = Get(objects, k)
      /\ \A o \in DOMAIN heap : M.heap[o] = heap[o]

\* C16 witness: update_map has run and the map holds the wall of a detected
\* marker next to a wall none of whose markers is detected any more.
C16_Witness ==
  /\ last.op = "update_map"
  /\ DetectedWalls # {}
  /\ \A w \in DetectedWalls : Has(objects, IntKey(w))
  /\ \E k \in WallKeys(objects) :
       /\ k[2] \notin DetectedWalls
       /\ \A i \in DOMAIN landmarks :
            landmarks[i].key \notin DOMAIN wall_specs[1].markers
       /\ wall_specs[1].id = k[2]

-----------------------------------------------------------------------------
(* The frame of update_face *)

\* The entries of the map whose Face handle reports the name that handle f
\* reports
NameMatches(f) ==
  {i \in DOMAIN objects :
     objects[i].key[1] = "Face" /\ faces[objects[i].key[2]].name = faces[f].name}

\* C17: update_face for a handle with a pose sets is_visible of the entity
\* it resolves to (the first entry whose handle reports the same name, or
\* else a new FaceObj under the handle) to the handle's visibility; when the
\* handle is not visible nothing else changes: the resolved entity keeps x,
\* y, z, theta, expression and every other field, no key is removed or bound
\* to another object, and every other object stays as it is.
C17_FaceFrame ==
  [][ \A f \in FaceIds :
        (Ran("update_face", FaceKey(f)) /\ ~faces[f].pose.null)
        => IF NameMatches(f) = {}
           THEN /\ Len(objects') = Len(objects) + 1
                /\ SubSeq(objects', 1, Len(objects)) = objects
                /\ objects'[Len(objects')].key = FaceKey(f)
                /\ objects'[Len(objects')].obj \notin DOMAIN heap
                /\ heap'[objects'[Len(objects')].obj].is_visible = faces[f].is_visible
                /\ \A o \in DOMAIN heap : heap'[o] = heap[o]
           ELSE LET o == objects[Min(NameMatches(f))].obj
                IN  /\ heap'[o].is_visible = faces[f].is_visible
                    /\ ~faces[f].is_visible =>
                         /\ objects' = objects
                         /\ heap' = [heap EXCEPT ![o].is_visible = FALSE] ]_vars

\* C17 witness: update_face has just run for a handle that is not visible
\* and reports another place than the entity holds; the entity it resolved
\* to is still keyed under another handle of the same name, which is
\* visible, and it is not visible and has its coordinates fused from before.
C17_Witness ==
  \E f, g \in FaceIds :
    /\ f # g
    /\ last = [op |-> "update_face", arg |-> FaceKey(f)]
    /\ ~faces[f].pose.null /\ ~faces[f].is_visible
    /\ faces[g].name = faces[f].name /\ faces[g].is_visible
    /\ Has(objects, FaceKey(g)) /\ ~Has(objects, FaceKey(f))
    /\ ~Entity(FaceKey(g)).is_visible
    /\ Entity(FaceKey(g)).theta # <<>>
    /\ Entity(FaceKey(g)).x # faces[f].pose.x

-----------------------------------------------------------------------------
(* Wall specifications without markers *)

\* C18: no WallSpec without markers comes to exist: a construction either
\* fails with ValueError, and then the registry and the specs constructed
\* so far are as before, or it adds one spec that has markers.
C18_NoMarkersFails ==
  [][ last'.op = "WallSpec"
      => IF last'.arg[1] = "ValueError"
         THEN wall_marker_dict' = wall_marker_dict /\ wall_specs' = wall_specs
         ELSE /\ Len(wall_specs') = Len(wall_specs) + 1
              /\ SubSeq(wall_specs', 1, Len(wall_specs)) = wall_specs
              /\ DOMAIN wall_specs'[Len(wall_specs')].markers # {} ]_vars

\* C18 witness: a construction without markers has just failed while the
\* registry holds the entries of an earlier wall.
C18_Witness ==
  /\ last = [op |-> "WallSpec", arg |-> <<"ValueError", 0>>]
  /\ wall_specs # <<>>
  /\ Keys(wall_marker_dict) = DOMAIN wall_specs[1].markers
  /\ \A m \in Keys(wall_marker_dict) : Get(wall_marker_dict, m) = wall_specs[1]

-----------------------------------------------------------------------------
(* One key per entity *)

\* No object is bound to two keys of the map objs
OneKeyPerEntity(objs) ==
  \A i, j \in DOMAIN objs : objs[i].obj = objs[j].obj => i = j

\* C19: after every step each entity object is bound to at most one key of
\* the map, and a face re-key (update_face moves the entity of handle h1 to
\* handle h2) removes h1 and leaves the number of entries as it was.
C19_OneKeyAndCount ==
  [][ /\ OneKeyPerEntity(objects')
      /\ \A h1, h2 \in FaceIds :
           ( /\ h1 # h2
             /\ Ran("update_face", FaceKey(h2))
             /\ Has(objects, FaceKey(h1))
             /\ Has(objects', FaceKey(h2))
             /\ Get(objects', FaceKey(h2)) = Get(objects, FaceKey(h1)) )
           => /\ ~Has(objects', FaceKey(h1))
              /\ Len(objects') = Len(objects) ]_vars

-----------------------------------------------------------------------------
(* update_from_sdk *)

\* The objects that a step keeps
Kept == DOMAIN heap \cap DOMAIN heap'

\* The cube and custom-object keys that a step adds to the map
NewSensorKeys ==
  {k \in Keys(objects') \ Keys(objects) : k[1] \in {"LightCube", "CustomObject"}}

\* No operation of the module takes update_from_sdk of an object from true
\* to false, and a cube or custom-object entity enters the map with it true
NeverSetFalse ==
  /\ \A o \in Kept : heap[o].update_from_sdk => heap'[o].update_from_sdk
  /\ \A k \in NewSensorKeys : heap'[Get(objects', k)].update_from_sdk

\* The step changes update_from_sdk of no object, or only of the entity of a
\* visible cube that is not carried
OnlyVisibleCubesSetTrue ==
  \A o \in Kept :
    heap'[o].update_from_sdk # heap[o].update_from_sdk
    => \E c \in CubeIds :
         /\ Has(objects, CubeKey(c)) /\ Get(objects, CubeKey(c)) = o
         /\ light_cubes[c].is_visible
         /\ robot.carrying # <<o>>

UpdateFromSdkUnchanged ==
  \A o \in Kept : heap'[o].update_from_sdk = heap[o].update_from_sdk

====
